---- MODULE Spec2Model ----
(***************************************************************************)
(* The Starcoin gas meter (vm/starcoin-gas/src/gas_meter.rs): the gas      *)
(* parameter groups, the on-chain schedule codec of StarcoinGasParameters  *)
(* and NativeGasParameters, and StarcoinGasMeter with its charge methods.  *)
(***************************************************************************)
EXTENDS Integers, Sequences, FiniteSets, TLC

VARIABLES
    meter,      \* the StarcoinGasMeter: [gas_params, balance, charge]
    init_gas,   \* the external gas the meter was constructed with
    init_params, \* the name of the parameter set the meter was constructed from
    last,       \* the last meter call: its name, inputs, result, and the balance and flag before it
    was_zero,   \* whether the balance has been 0 at some point of the meter's life
    schedule,   \* the on-chain gas schedule: a sequence of <<name, value>> pairs
    decoded,    \* the Option the last from_on_chain_gas_schedule / initial / zeros returned
    decoded_of, \* where it came from: [kind, entries], entries the schedule decoded
    encoded,    \* the entries the last to_on_chain_gas_schedule returned
    encoded_of, \* [params, source]: the Option it encoded, and where that came from
    codec_op,   \* the last codec call
    fleet,      \* several meters built from the same parameters, and their owners' calls
    window,     \* the owner's record of the stretch in which it switched charging off
    quotes      \* the owner's record of what balance() returned to it

meter_vars == <<meter, init_gas, init_params, last, was_zero>>
codec_vars == <<schedule, decoded, decoded_of, encoded, encoded_of, codec_op>>
vars == <<meter, init_gas, init_params, last, was_zero,
          schedule, decoded, decoded_of, encoded, encoded_of, codec_op, fleet,
          window, quotes>>

(***************************************************************************)
(* Bounds of the model.                                                    *)
(***************************************************************************)
\* u64::MAX of InternalGas / Gas / NumArgs / AbstractMemorySize, scaled down
U64_MAX == 255
\* the largest external gas a meter is constructed with
MaxGas == 2
\* the largest abstract memory size / byte size of one operand
MaxSize == 1
\* the largest number of value arguments, type arguments, fields, elements
MaxArgs == 2
\* the largest amount handed directly to deduct_gas / charge_native_function
MaxAmount == 2
\* how many times a published schedule's entries are shuffled
MaxShuffles == 2
\* how many calls made with charging switched off the owner counts
MaxWindowCalls == 2

(***************************************************************************)
(* Saturating u64 arithmetic of the gas algebra (GasQuantity's Add, Mul).  *)
(***************************************************************************)
Sat(x) == IF x > U64_MAX THEN U64_MAX ELSE x
SatAdd(x, y) == Sat(x + y)
SatMul(x, y) == Sat(x * y)

Max(x, y) == IF x >= y THEN x ELSE y

RECURSIVE SumSeq(_)
SumSeq(s) == IF s = <<>> THEN 0 ELSE SatAdd(Head(s), SumSeq(Tail(s)))

Range(s) == {s[i] : i \in 1..Len(s)}

(***************************************************************************)
(* Gas parameter groups: the names of each group's constants, in the       *)
(* order the group's own codec lists them.                                 *)
(***************************************************************************)
MiscNames == <<"misc.abs_val.u8", "misc.abs_val.vector">>

SimpleInstrNames == <<"nop", "ret", "add">>

InstrNames ==
    SimpleInstrNames \o
    <<"call_per_arg", "call_generic_per_arg", "ld_const_per_byte",
      "copy_loc_per_abs_mem_unit", "move_loc_per_abs_mem_unit",
      "st_loc_per_abs_mem_unit",
      "pack_per_abs_mem_unit", "pack_generic_per_abs_mem_unit",
      "unpack_per_abs_mem_unit", "unpack_generic_per_abs_mem_unit",
      "read_ref_per_abs_mem_unit", "write_ref_per_abs_mem_unit",
      "eq_per_abs_mem_unit",
      "imm_borrow_global_base", "imm_borrow_global_generic_base",
      "mut_borrow_global_base", "mut_borrow_global_generic_base",
      "exists_per_abs_mem_unit", "exists_generic_per_abs_mem_unit",
      "move_from_per_abs_mem_unit", "move_from_generic_per_abs_mem_unit",
      "move_to_per_abs_mem_unit", "move_to_generic_per_abs_mem_unit",
      "vec_pack_per_elem", "vec_len_base",
      "vec_imm_borrow_base", "vec_mut_borrow_base",
      "vec_push_back_per_abs_mem_unit", "vec_pop_back_base",
      "vec_unpack_per_expected_elem", "vec_swap_base">>

TxnNames ==
    <<"min_transaction_gas_units", "intrinsic_gas_per_byte",
      "gas_unit_scaling_factor",
      "global_memory_per_byte_write_cost", "default_account_size">>

MoveStdlibNames == <<"move_stdlib.bcs.to_bytes", "move_stdlib.vector.length">>
NurseryNames == <<"nursery.debug.print">>
StarcoinNativesNames == <<"starcoin_natives.account.create_signer">>
TableNames == <<"table.new_table_handle">>

\* a name no parameter group of the binary knows
UnknownName == "unknown.entry"

\* a group all of whose constants are v
GroupOf(names, v) == [n \in Range(names) |-> v]

\* a group whose i-th constant is 1 + ((i + k) mod 3): neighbours differ
GroupGraded(names, k) ==
    [n \in Range(names) |->
        1 + (((CHOOSE i \in 1..Len(names) : names[i] = n) + k) % 3)]

(***************************************************************************)
(* StarcoinGasParameters and NativeGasParameters: zeros() and initial().   *)
(***************************************************************************)
NativeGasParameters_zeros ==
    [move_stdlib      |-> GroupOf(MoveStdlibNames, 0),
     nursery          |-> GroupOf(NurseryNames, 0),
     starcoin_natives |-> GroupOf(StarcoinNativesNames, 0),
     table            |-> GroupOf(TableNames, 0)]

\* zeros() with the instruction group taken from initial()
zeros_with_initial_instr ==
    [misc    |-> GroupOf(MiscNames, 0),
     instr   |-> GroupGraded(InstrNames, 0),
     txn     |-> GroupOf(TxnNames, 0),
     natives |-> NativeGasParameters_zeros]

StarcoinGasParameters_zeros ==
    [misc    |-> GroupOf(MiscNames, 0),
     instr   |-> GroupOf(InstrNames, 0),
     txn     |-> GroupOf(TxnNames, 0),
     natives |-> NativeGasParameters_zeros]

\* the transaction group's initial values: a scale factor above its other constants
TransactionGasParameters_initial ==
    [GroupGraded(TxnNames, 0) EXCEPT !["gas_unit_scaling_factor"] = 5]

NativeGasParameters_initial ==
    [move_stdlib      |-> GroupGraded(MoveStdlibNames, 0),
     nursery          |-> GroupGraded(NurseryNames, 1),
     starcoin_natives |-> GroupGraded(StarcoinNativesNames, 2),
     table            |-> GroupGraded(TableNames, 0)]

StarcoinGasParameters_initial ==
    [misc    |-> GroupGraded(MiscNames, 1),
     instr   |-> GroupGraded(InstrNames, 0),
     txn     |-> TransactionGasParameters_initial,
     natives |-> NativeGasParameters_initial]

\* a governance-published parameter set: every constant 2
GovernanceParams ==
    [misc    |-> GroupOf(MiscNames, 2),
     instr   |-> GroupOf(InstrNames, 2),
     txn     |-> GroupOf(TxnNames, 2),
     natives |-> [move_stdlib      |-> GroupOf(MoveStdlibNames, 2),
                  nursery          |-> GroupOf(NurseryNames, 2),
                  starcoin_natives |-> GroupOf(StarcoinNativesNames, 2),
                  table            |-> GroupOf(TableNames, 2)]]

\* the parameter sets a meter is constructed from
ParamChoices ==
    {StarcoinGasParameters_zeros, StarcoinGasParameters_initial, GovernanceParams}

\* the same parameter sets, by name
ParamNames == {"zeros", "initial", "governance"}
ParamsNamed(name) ==
    CASE name = "zeros" -> StarcoinGasParameters_zeros
      [] name = "initial" -> StarcoinGasParameters_initial
      [] name = "governance" -> GovernanceParams

(***************************************************************************)
(* The schedule codec.  An Option is <<>> (None) or <<x>> (Some(x)); an    *)
(* on-chain schedule is a sequence of <<name, value>> pairs, and the       *)
(* BTreeMap decoding reads is a function from names to values.             *)
(***************************************************************************)
None == <<>>
Some(x) == <<x>>

\* the BTreeMap<String, u64> of a schedule's entries (a later entry of a name wins)
to_btree_map(entries) ==
    [n \in {entries[i][1] : i \in 1..Len(entries)} |->
        entries[CHOOSE i \in 1..Len(entries) :
                    /\ entries[i][1] = n
                    /\ \A j \in 1..Len(entries) : entries[j][1] = n => j <= i][2]]

\* one group's from_on_chain_gas_schedule: every name of the group, by name, or None
group_from_on_chain_gas_schedule(names, gas_schedule) ==
    IF Range(names) \subseteq DOMAIN gas_schedule
    THEN Some([n \in Range(names) |-> gas_schedule[n]])
    ELSE None

\* one group's to_on_chain_gas_schedule: its pairs in the group's order
group_to_on_chain_gas_schedule(names, group) ==
    [i \in 1..Len(names) |-> <<names[i], group[names[i]]>>]

\* NativeGasParameters::from_on_chain_gas_schedule with table: ...unwrap_or(zeros())
native_from_on_chain_table_defaulted(gas_schedule) ==
    LET move_stdlib == group_from_on_chain_gas_schedule(MoveStdlibNames, gas_schedule)
        nursery == group_from_on_chain_gas_schedule(NurseryNames, gas_schedule)
        starcoin_natives ==
            group_from_on_chain_gas_schedule(StarcoinNativesNames, gas_schedule)
        table == group_from_on_chain_gas_schedule(TableNames, gas_schedule)
    IN  IF move_stdlib = None \/ nursery = None \/ starcoin_natives = None
        THEN None
        ELSE Some([move_stdlib      |-> move_stdlib[1],
                   nursery          |-> nursery[1],
                   starcoin_natives |-> starcoin_natives[1],
                   table            |-> IF table = None THEN GroupOf(TableNames, 0)
                                                        ELSE table[1]])

NativeGasParameters_from_on_chain_gas_schedule(gas_schedule) ==
    LET move_stdlib == group_from_on_chain_gas_schedule(MoveStdlibNames, gas_schedule)
        nursery == group_from_on_chain_gas_schedule(NurseryNames, gas_schedule)
        starcoin_natives ==
            group_from_on_chain_gas_schedule(StarcoinNativesNames, gas_schedule)
        table == group_from_on_chain_gas_schedule(TableNames, gas_schedule)
    IN  IF move_stdlib = None \/ nursery = None \/ starcoin_natives = None
           \/ table = None
        THEN None
        ELSE Some([move_stdlib      |-> move_stdlib[1],
                   nursery          |-> nursery[1],
                   starcoin_natives |-> starcoin_natives[1],
                   table            |-> table[1]])

\* NativeGasParameters::to_on_chain_gas_schedule with starcoin_natives before nursery
native_to_on_chain_swapped(natives) ==
    group_to_on_chain_gas_schedule(MoveStdlibNames, natives.move_stdlib)
    \o group_to_on_chain_gas_schedule(StarcoinNativesNames, natives.starcoin_natives)
    \o group_to_on_chain_gas_schedule(NurseryNames, natives.nursery)
    \o group_to_on_chain_gas_schedule(TableNames, natives.table)

NativeGasParameters_to_on_chain_gas_schedule(natives) ==
    group_to_on_chain_gas_schedule(MoveStdlibNames, natives.move_stdlib)
    \o group_to_on_chain_gas_schedule(NurseryNames, natives.nursery)
    \o group_to_on_chain_gas_schedule(StarcoinNativesNames, natives.starcoin_natives)
    \o group_to_on_chain_gas_schedule(TableNames, natives.table)

StarcoinGasParameters_from_on_chain_gas_schedule(gas_schedule) ==
    LET misc == group_from_on_chain_gas_schedule(MiscNames, gas_schedule)
        natives == NativeGasParameters_from_on_chain_gas_schedule(gas_schedule)
        instr == group_from_on_chain_gas_schedule(InstrNames, gas_schedule)
        txn == group_from_on_chain_gas_schedule(TxnNames, gas_schedule)
    IN  IF misc = None \/ natives = None \/ instr = None \/ txn = None
        THEN None
        ELSE Some([misc    |-> misc[1],
                   instr   |-> instr[1],
                   txn     |-> txn[1],
                   natives |-> natives[1]])

\* StarcoinGasParameters::to_on_chain_gas_schedule with the transaction group first
starcoin_to_on_chain_txn_first(params) ==
    group_to_on_chain_gas_schedule(TxnNames, params.txn)
    \o group_to_on_chain_gas_schedule(InstrNames, params.instr)
    \o NativeGasParameters_to_on_chain_gas_schedule(params.natives)

StarcoinGasParameters_to_on_chain_gas_schedule(params) ==
    group_to_on_chain_gas_schedule(InstrNames, params.instr)
    \o group_to_on_chain_gas_schedule(TxnNames, params.txn)
    \o NativeGasParameters_to_on_chain_gas_schedule(params.natives)

(***************************************************************************)
(* The transaction and instruction groups' formulas the meter calls.       *)
(***************************************************************************)
\* TransactionGasParameters::scaling_factor: a zero factor counts as 1
scaling_factor(txn) ==
    IF txn["gas_unit_scaling_factor"] = 0 THEN 1 ELSE txn["gas_unit_scaling_factor"]

\* Gas -> InternalGas
to_unit_with_params(gas, txn) == SatMul(gas, scaling_factor(txn))

\* InternalGas -> Gas, rounding down
to_unit_round_down_with_params(internal, txn) == internal \div scaling_factor(txn)

\* TransactionGasParameters::calculate_intrinsic_gas
calculate_intrinsic_gas(txn, txn_size) ==
    SatAdd(txn["min_transaction_gas_units"],
           SatMul(txn["intrinsic_gas_per_byte"], txn_size))

\* TransactionGasParameters::cal_write_set_gas
txn_cal_write_set_gas(txn) ==
    SatMul(txn["global_memory_per_byte_write_cost"], txn["default_account_size"])

\* InstructionGasParameters::simple_instr_cost
simple_instr_cost(instr, kind) == instr[kind]

(***************************************************************************)
(* StarcoinGasMeter.  A meter is [gas_params, balance, charge]; a call     *)
(* that can fail returns [m, res, loc]: the meter after it, "Ok" or the    *)
(* status code of the error, and the location the error was finished with. *)
(***************************************************************************)
Ok(m) == [m |-> m, res |-> "Ok", loc |-> "none"]
Err(m, code) == [m |-> m, res |-> code, loc |-> "none"]

\* new() keeping the external amount as the internal balance, unconverted
new_unscaled(gas_params, gas) ==
    [gas_params |-> gas_params, balance |-> gas, charge |-> TRUE]

new(gas_params, gas) ==
    [gas_params |-> gas_params,
     balance    |-> to_unit_with_params(gas, gas_params.txn),
     charge     |-> TRUE]

\* balance() rounding up
balance_round_up(m) ==
    (m.balance + scaling_factor(m.gas_params.txn) - 1) \div scaling_factor(m.gas_params.txn)

balance(m) == to_unit_round_down_with_params(m.balance, m.gas_params.txn)

\* deduct_gas with balance > amount for the success test: amount = balance fails
deduct_gas_strict(m, amount) ==
    IF ~m.charge
    THEN Ok(m)
    ELSE IF m.balance > amount
         THEN Ok([m EXCEPT !.balance = m.balance - amount])
         ELSE Err([m EXCEPT !.balance = 0], "OUT_OF_GAS")

\* deduct_gas with wrapping_sub for checked_sub: an underflow wraps around
deduct_gas_wrapping(m, amount) ==
    IF ~m.charge
    THEN Ok(m)
    ELSE Ok([m EXCEPT !.balance = (m.balance - amount) % (U64_MAX + 1)])

\* deduct_gas with saturating_sub for checked_sub: an underflow clamps and succeeds
deduct_gas_saturating(m, amount) ==
    IF ~m.charge
    THEN Ok(m)
    ELSE Ok([m EXCEPT !.balance = Max(0, m.balance - amount)])

\* deduct_gas without the test of the charge flag
deduct_gas_always(m, amount) ==
    IF m.balance >= amount
    THEN Ok([m EXCEPT !.balance = m.balance - amount])
    ELSE Err([m EXCEPT !.balance = 0], "OUT_OF_GAS")

deduct_gas(m, amount) ==
    IF ~m.charge
    THEN Ok(m)
    ELSE IF m.balance >= amount
         THEN Ok([m EXCEPT !.balance = m.balance - amount])
         ELSE Err([m EXCEPT !.balance = 0], "OUT_OF_GAS")

\* set_metering flipping the flag whatever it is given
set_metering_toggle(m, enabled) == [m EXCEPT !.charge = ~m.charge]

set_metering(m, enabled) == [m EXCEPT !.charge = enabled]

\* map_err(|e| e.finish(Location::Undefined))
finish_undefined(r) == IF r.res = "Ok" THEN r ELSE [r EXCEPT !.loc = "Undefined"]

\* charge_intrinsic_gas_for_transaction without the map_err: the error keeps no location
charge_intrinsic_unfinished(m, txn_size) ==
    deduct_gas(m, calculate_intrinsic_gas(m.gas_params.txn, txn_size))

charge_intrinsic_gas_for_transaction(m, txn_size) ==
    finish_undefined(deduct_gas(m, calculate_intrinsic_gas(m.gas_params.txn, txn_size)))

\* cal_write_set_gas priced from the meter's balance instead of the write cost constant
cal_write_set_gas_of_balance(m) ==
    SatMul(m.balance, m.gas_params.txn["default_account_size"])

cal_write_set_gas(m) == txn_cal_write_set_gas(m.gas_params.txn)

(***************************************************************************)
(* impl GasMeter for StarcoinGasMeter: the cost each charge method hands   *)
(* to deduct_gas, and the method.                                          *)
(***************************************************************************)
simple_instr_charge(gp, kind) == simple_instr_cost(gp.instr, kind)
charge_simple_instr(m, kind) == deduct_gas(m, simple_instr_charge(m.gas_params, kind))

\* charge_call's cost with NumArgs::new(args.len()), without the + 1
call_cost_no_base(gp, args_len) == SatMul(gp.instr["call_per_arg"], args_len)

call_cost(gp, args_len) == SatMul(gp.instr["call_per_arg"], args_len + 1)
\* charge_call with a surcharge that depends on the balance it is charged to
charge_call_surge(m, args_len) ==
    deduct_gas(m, SatAdd(call_cost(m.gas_params, args_len),
                         IF m.balance > m.gas_params.instr["call_per_arg"] THEN 1 ELSE 0))

charge_call(m, args_len) == deduct_gas(m, call_cost(m.gas_params, args_len))

call_generic_cost(gp, ty_args_len, args_len) ==
    SatMul(gp.instr["call_generic_per_arg"], ty_args_len + args_len + 1)
charge_call_generic(m, ty_args_len, args_len) ==
    deduct_gas(m, call_generic_cost(m.gas_params, ty_args_len, args_len))

ld_const_cost(gp, size) == SatMul(gp.instr["ld_const_per_byte"], size)
charge_ld_const(m, size) == deduct_gas(m, ld_const_cost(m.gas_params, size))

copy_loc_cost(gp, val) == SatMul(gp.instr["copy_loc_per_abs_mem_unit"], val)
charge_copy_loc(m, val) == deduct_gas(m, copy_loc_cost(m.gas_params, val))

move_loc_cost(gp, val) == SatMul(gp.instr["move_loc_per_abs_mem_unit"], val)
charge_move_loc(m, val) == deduct_gas(m, move_loc_cost(m.gas_params, val))

store_loc_cost(gp, val) == SatMul(gp.instr["st_loc_per_abs_mem_unit"], val)
charge_store_loc(m, val) == deduct_gas(m, store_loc_cost(m.gas_params, val))

\* args.fold(field_count, |acc, val| acc + val.legacy_abstract_memory_size())
\* the fold started from 0 instead of field_count
fold_size_no_field_count(args) == SumSeq(args)

fold_size(args) == SatAdd(Len(args), SumSeq(args))

pack_cost(gp, is_generic, args) ==
    IF is_generic
    THEN SatMul(gp.instr["pack_generic_per_abs_mem_unit"], fold_size(args))
    ELSE SatMul(gp.instr["pack_per_abs_mem_unit"], fold_size(args))
charge_pack(m, is_generic, args) == deduct_gas(m, pack_cost(m.gas_params, is_generic, args))

unpack_cost(gp, is_generic, args) ==
    IF is_generic
    THEN SatMul(gp.instr["unpack_generic_per_abs_mem_unit"], fold_size(args))
    ELSE SatMul(gp.instr["unpack_per_abs_mem_unit"], fold_size(args))
charge_unpack(m, is_generic, args) ==
    deduct_gas(m, unpack_cost(m.gas_params, is_generic, args))

read_ref_cost(gp, val) == SatMul(gp.instr["read_ref_per_abs_mem_unit"], val)
charge_read_ref(m, val) == deduct_gas(m, read_ref_cost(m.gas_params, val))

write_ref_cost(gp, val) == SatMul(gp.instr["write_ref_per_abs_mem_unit"], val)
charge_write_ref(m, val) == deduct_gas(m, write_ref_cost(m.gas_params, val))

eq_cost(gp, lhs, rhs) == SatMul(gp.instr["eq_per_abs_mem_unit"], SatAdd(lhs, rhs))
charge_eq(m, lhs, rhs) == deduct_gas(m, eq_cost(m.gas_params, lhs, rhs))

neq_cost(gp, lhs, rhs) == SatMul(gp.instr["eq_per_abs_mem_unit"], SatAdd(lhs, rhs))
charge_neq(m, lhs, rhs) == deduct_gas(m, neq_cost(m.gas_params, lhs, rhs))

\* charge_borrow_global's cost with a failed borrow free
borrow_global_cost_free_on_failure(gp, is_mut, is_generic, is_success) ==
    IF ~is_success THEN 0
    ELSE CASE ~is_mut /\ ~is_generic -> gp.instr["imm_borrow_global_base"]
           [] ~is_mut /\ is_generic  -> gp.instr["imm_borrow_global_generic_base"]
           [] is_mut /\ ~is_generic  -> gp.instr["mut_borrow_global_base"]
           [] is_mut /\ is_generic   -> gp.instr["mut_borrow_global_generic_base"]

borrow_global_cost(gp, is_mut, is_generic, is_success) ==
    CASE ~is_mut /\ ~is_generic -> gp.instr["imm_borrow_global_base"]
      [] ~is_mut /\ is_generic  -> gp.instr["imm_borrow_global_generic_base"]
      [] is_mut /\ ~is_generic  -> gp.instr["mut_borrow_global_base"]
      [] is_mut /\ is_generic   -> gp.instr["mut_borrow_global_generic_base"]
charge_borrow_global(m, is_mut, is_generic, is_success) ==
    deduct_gas(m, borrow_global_cost(m.gas_params, is_mut, is_generic, is_success))

reference_size == 8
min_exists_data_size == 100

\* charge_exists' cost with the two sizes the other way round
exists_cost_sizes_swapped(gp, is_generic, exists) ==
    LET param == IF is_generic THEN gp.instr["exists_generic_per_abs_mem_unit"]
                               ELSE gp.instr["exists_per_abs_mem_unit"]
        size  == IF exists THEN min_exists_data_size ELSE reference_size
    IN  SatMul(param, size)

exists_cost(gp, is_generic, exists) ==
    LET param == IF is_generic THEN gp.instr["exists_generic_per_abs_mem_unit"]
                               ELSE gp.instr["exists_per_abs_mem_unit"]
        size  == IF exists THEN reference_size ELSE min_exists_data_size
    IN  SatMul(param, size)
charge_exists(m, is_generic, exists) ==
    deduct_gas(m, exists_cost(m.gas_params, is_generic, exists))

\* val is <<>> for None and <<size>> for Some(val)
move_from_cost(gp, is_generic, val) ==
    LET param == IF is_generic THEN gp.instr["move_from_generic_per_abs_mem_unit"]
                               ELSE gp.instr["move_from_per_abs_mem_unit"]
    IN  SatMul(param, val[1])
\* charge_move_from charging an absent resource as a value of size 1
charge_move_from_absent_min(m, is_generic, val) ==
    IF val # <<>>
    THEN deduct_gas(m, move_from_cost(m.gas_params, is_generic, val))
    ELSE deduct_gas(m, move_from_cost(m.gas_params, is_generic, <<1>>))

charge_move_from(m, is_generic, val) ==
    IF val # <<>>
    THEN deduct_gas(m, move_from_cost(m.gas_params, is_generic, val))
    ELSE Ok(m)

move_to_cost(gp, is_generic, val, is_success) ==
    LET param == IF is_generic THEN gp.instr["move_to_generic_per_abs_mem_unit"]
                               ELSE gp.instr["move_to_per_abs_mem_unit"]
    IN  SatMul(param, val)
charge_move_to(m, is_generic, val, is_success) ==
    deduct_gas(m, move_to_cost(m.gas_params, is_generic, val, is_success))

vec_pack_cost(gp, args_len) == SatMul(gp.instr["vec_pack_per_elem"], args_len)
charge_vec_pack(m, args_len) == deduct_gas(m, vec_pack_cost(m.gas_params, args_len))

vec_len_cost(gp) == gp.instr["vec_len_base"]
\* charge_vec_len dropping what deduct_gas returned
charge_vec_len_swallowing(m) == Ok(deduct_gas(m, vec_len_cost(m.gas_params)).m)

charge_vec_len(m) == deduct_gas(m, vec_len_cost(m.gas_params))

vec_borrow_cost(gp, is_mut, is_success) ==
    IF is_mut THEN gp.instr["vec_mut_borrow_base"] ELSE gp.instr["vec_imm_borrow_base"]
charge_vec_borrow(m, is_mut, is_success) ==
    deduct_gas(m, vec_borrow_cost(m.gas_params, is_mut, is_success))

vec_push_back_cost(gp, val) == SatMul(gp.instr["vec_push_back_per_abs_mem_unit"], val)
charge_vec_push_back(m, val) == deduct_gas(m, vec_push_back_cost(m.gas_params, val))

\* val is <<>> for None and <<size>> for Some(val)
vec_pop_back_cost(gp, val) == gp.instr["vec_pop_back_base"]
charge_vec_pop_back(m, val) == deduct_gas(m, vec_pop_back_cost(m.gas_params, val))

vec_unpack_cost(gp, expect_num_elements) ==
    SatMul(gp.instr["vec_unpack_per_expected_elem"], expect_num_elements)
charge_vec_unpack(m, expect_num_elements) ==
    deduct_gas(m, vec_unpack_cost(m.gas_params, expect_num_elements))

vec_swap_cost(gp) == gp.instr["vec_swap_base"]
charge_vec_swap(m) == deduct_gas(m, vec_swap_cost(m.gas_params))

\* charge_load_resource metering the bytes it loaded: one unit per byte of a
\* resource that is present, one unit for the lookup of an absent one
charge_load_resource_per_byte(m, loaded) ==
    deduct_gas(m, IF loaded = <<>> THEN 1 ELSE loaded[1])

\* loaded is <<>> for None and <<bytes>> for Some(bytes)
charge_load_resource(m, loaded) == Ok(m)

charge_native_function(m, amount) == deduct_gas(m, amount)


(***************************************************************************)
(* The calls of a meter's owner.  Every call records itself in last.       *)
(***************************************************************************)
Sizes == 0..MaxSize
Counts == 0..MaxArgs
Amounts == (0..MaxAmount) \cup {U64_MAX}
\* the abstract memory sizes of a list of values
ArgLists == UNION {[1..k -> Sizes] : k \in 0..MaxArgs}
\* Option of a value's size or of a byte count
OptSizes == {<<>>} \cup {<<sz>> : sz \in Sizes}

NoInput == [n |-> 0, t |-> 0, args |-> <<>>,
            is_generic |-> FALSE, is_mut |-> FALSE, flag |-> FALSE]

\* what last keeps of the meter a call was made on
Pre == [balance |-> meter.balance, charge |-> meter.charge, was_zero |-> was_zero]

\* a call that returns a PartialVMResult / VMResult: r is what it returned,
\* cost the amount it handed to deduct_gas when called says it did
Step(op, inp, r, cost, called) ==
    /\ meter' = r.m
    /\ last' = [op |-> op, inp |-> inp, cost |-> cost, called |-> called,
                pre |-> Pre, res |-> r.res, loc |-> r.loc, ret |-> 0]
    /\ was_zero' = (was_zero \/ r.m.balance = 0)
    /\ UNCHANGED <<init_gas, init_params, codec_vars, fleet, window, quotes>>

\* a call on &self that returns a value
Query(op, ret) ==
    /\ last' = [op |-> op, inp |-> NoInput, cost |-> 0, called |-> FALSE,
                pre |-> Pre, res |-> "Ok", loc |-> "none", ret |-> ret]
    /\ UNCHANGED <<meter, was_zero, init_gas, init_params, codec_vars, fleet, window, quotes>>

Balance == Query("balance", balance(meter))

CalWriteSetGas == Query("cal_write_set_gas", cal_write_set_gas(meter))

DeductGas ==
    \E amount \in Amounts :
        Step("deduct_gas", [NoInput EXCEPT !.n = amount],
             deduct_gas(meter, amount), amount, TRUE)

SetMetering ==
    \E enabled \in BOOLEAN :
        /\ meter' = set_metering(meter, enabled)
        /\ last' = [op |-> "set_metering", inp |-> [NoInput EXCEPT !.flag = enabled],
                    cost |-> 0, called |-> FALSE, pre |-> Pre,
                    res |-> "Ok", loc |-> "none", ret |-> 0]
        /\ was_zero' = (was_zero \/ meter'.balance = 0)
        /\ UNCHANGED <<init_gas, init_params, codec_vars, fleet, window, quotes>>

ChargeIntrinsicGasForTransaction ==
    \E txn_size \in Sizes :
        Step("charge_intrinsic_gas_for_transaction", [NoInput EXCEPT !.n = txn_size],
             charge_intrinsic_gas_for_transaction(meter, txn_size),
             calculate_intrinsic_gas(meter.gas_params.txn, txn_size), TRUE)

ChargeSimpleInstr ==
    \E i \in 1..Len(SimpleInstrNames) :
        Step("charge_simple_instr", [NoInput EXCEPT !.n = i],
             charge_simple_instr(meter, SimpleInstrNames[i]),
             simple_instr_charge(meter.gas_params, SimpleInstrNames[i]), TRUE)

ChargeCall ==
    \E n \in Counts :
        Step("charge_call", [NoInput EXCEPT !.n = n],
             charge_call(meter, n), call_cost(meter.gas_params, n), TRUE)

ChargeCallGeneric ==
    \E t \in Counts, n \in Counts :
        Step("charge_call_generic", [NoInput EXCEPT !.n = n, !.t = t],
             charge_call_generic(meter, t, n),
             call_generic_cost(meter.gas_params, t, n), TRUE)

ChargeLdConst ==
    \E size \in Sizes :
        Step("charge_ld_const", [NoInput EXCEPT !.n = size],
             charge_ld_const(meter, size), ld_const_cost(meter.gas_params, size), TRUE)

ChargeCopyLoc ==
    \E val \in Sizes :
        Step("charge_copy_loc", [NoInput EXCEPT !.n = val],
             charge_copy_loc(meter, val), copy_loc_cost(meter.gas_params, val), TRUE)

ChargeMoveLoc ==
    \E val \in Sizes :
        Step("charge_move_loc", [NoInput EXCEPT !.n = val],
             charge_move_loc(meter, val), move_loc_cost(meter.gas_params, val), TRUE)

ChargeStoreLoc ==
    \E val \in Sizes :
        Step("charge_store_loc", [NoInput EXCEPT !.n = val],
             charge_store_loc(meter, val), store_loc_cost(meter.gas_params, val), TRUE)

ChargePack ==
    \E is_generic \in BOOLEAN, args \in ArgLists :
        Step("charge_pack", [NoInput EXCEPT !.is_generic = is_generic, !.args = args],
             charge_pack(meter, is_generic, args),
             pack_cost(meter.gas_params, is_generic, args), TRUE)

ChargeUnpack ==
    \E is_generic \in BOOLEAN, args \in ArgLists :
        Step("charge_unpack", [NoInput EXCEPT !.is_generic = is_generic, !.args = args],
             charge_unpack(meter, is_generic, args),
             unpack_cost(meter.gas_params, is_generic, args), TRUE)

ChargeReadRef ==
    \E val \in Sizes :
        Step("charge_read_ref", [NoInput EXCEPT !.n = val],
             charge_read_ref(meter, val), read_ref_cost(meter.gas_params, val), TRUE)

ChargeWriteRef ==
    \E val \in Sizes :
        Step("charge_write_ref", [NoInput EXCEPT !.n = val],
             charge_write_ref(meter, val), write_ref_cost(meter.gas_params, val), TRUE)

ChargeEq ==
    \E lhs \in Sizes, rhs \in Sizes :
        Step("charge_eq", [NoInput EXCEPT !.n = lhs, !.t = rhs],
             charge_eq(meter, lhs, rhs), eq_cost(meter.gas_params, lhs, rhs), TRUE)

ChargeNeq ==
    \E lhs \in Sizes, rhs \in Sizes :
        Step("charge_neq", [NoInput EXCEPT !.n = lhs, !.t = rhs],
             charge_neq(meter, lhs, rhs), neq_cost(meter.gas_params, lhs, rhs), TRUE)

ChargeBorrowGlobal ==
    \E is_mut \in BOOLEAN, is_generic \in BOOLEAN, is_success \in BOOLEAN :
        Step("charge_borrow_global",
             [NoInput EXCEPT !.is_mut = is_mut, !.is_generic = is_generic,
                             !.flag = is_success],
             charge_borrow_global(meter, is_mut, is_generic, is_success),
             borrow_global_cost(meter.gas_params, is_mut, is_generic, is_success), TRUE)

ChargeExists ==
    \E is_generic \in BOOLEAN, exists \in BOOLEAN :
        Step("charge_exists",
             [NoInput EXCEPT !.is_generic = is_generic, !.flag = exists],
             charge_exists(meter, is_generic, exists),
             exists_cost(meter.gas_params, is_generic, exists), TRUE)

ChargeMoveFrom ==
    \E is_generic \in BOOLEAN, val \in OptSizes :
        Step("charge_move_from",
             [NoInput EXCEPT !.is_generic = is_generic, !.args = val],
             charge_move_from(meter, is_generic, val),
             IF val # <<>> THEN move_from_cost(meter.gas_params, is_generic, val) ELSE 0,
             val # <<>>)

ChargeMoveTo ==
    \E is_generic \in BOOLEAN, val \in Sizes, is_success \in BOOLEAN :
        Step("charge_move_to",
             [NoInput EXCEPT !.is_generic = is_generic, !.n = val, !.flag = is_success],
             charge_move_to(meter, is_generic, val, is_success),
             move_to_cost(meter.gas_params, is_generic, val, is_success), TRUE)

ChargeVecPack ==
    \E n \in Counts :
        Step("charge_vec_pack", [NoInput EXCEPT !.n = n],
             charge_vec_pack(meter, n), vec_pack_cost(meter.gas_params, n), TRUE)

ChargeVecLen ==
    Step("charge_vec_len", NoInput, charge_vec_len(meter),
         vec_len_cost(meter.gas_params), TRUE)

ChargeVecBorrow ==
    \E is_mut \in BOOLEAN, is_success \in BOOLEAN :
        Step("charge_vec_borrow",
             [NoInput EXCEPT !.is_mut = is_mut, !.flag = is_success],
             charge_vec_borrow(meter, is_mut, is_success),
             vec_borrow_cost(meter.gas_params, is_mut, is_success), TRUE)

ChargeVecPushBack ==
    \E val \in Sizes :
        Step("charge_vec_push_back", [NoInput EXCEPT !.n = val],
             charge_vec_push_back(meter, val),
             vec_push_back_cost(meter.gas_params, val), TRUE)

ChargeVecPopBack ==
    \E val \in OptSizes :
        Step("charge_vec_pop_back", [NoInput EXCEPT !.args = val],
             charge_vec_pop_back(meter, val),
             vec_pop_back_cost(meter.gas_params, val), TRUE)

ChargeVecUnpack ==
    \E n \in Counts :
        Step("charge_vec_unpack", [NoInput EXCEPT !.n = n],
             charge_vec_unpack(meter, n), vec_unpack_cost(meter.gas_params, n), TRUE)

ChargeVecSwap ==
    Step("charge_vec_swap", NoInput, charge_vec_swap(meter),
         vec_swap_cost(meter.gas_params), TRUE)

ChargeLoadResource ==
    \E loaded \in OptSizes :
        Step("charge_load_resource", [NoInput EXCEPT !.args = loaded],
             charge_load_resource(meter, loaded), 0, FALSE)

ChargeNativeFunction ==
    \E amount \in Amounts :
        Step("charge_native_function", [NoInput EXCEPT !.n = amount],
             charge_native_function(meter, amount), amount, TRUE)

\* the methods of impl GasMeter, and charge_intrinsic_gas_for_transaction
ChargeNames ==
    {"charge_intrinsic_gas_for_transaction", "charge_simple_instr", "charge_call",
     "charge_call_generic", "charge_ld_const", "charge_copy_loc", "charge_move_loc",
     "charge_store_loc", "charge_pack", "charge_unpack", "charge_read_ref",
     "charge_write_ref", "charge_eq", "charge_neq", "charge_borrow_global",
     "charge_exists", "charge_move_from", "charge_move_to", "charge_vec_pack",
     "charge_vec_len", "charge_vec_borrow", "charge_vec_push_back",
     "charge_vec_pop_back", "charge_vec_unpack", "charge_vec_swap",
     "charge_load_resource", "charge_native_function"}

(***************************************************************************)
(* The meter's specification: a meter is constructed with new() from one   *)
(* of the parameter sets and an external gas amount, then called freely.   *)
(***************************************************************************)
\* where a decoded value came from: a schedule, initial(), zeros(), or nothing yet
NoSource == [kind |-> "none", entries |-> <<>>]

\* no fleet of meters has been built
FleetIdle ==
    fleet = [params |-> "none", gas |-> <<>>, meters |-> <<>>, solo |-> <<>>,
             same_calls |-> FALSE, who |-> {}, res |-> <<>>, solo_res |-> <<>>,
             charged |-> <<>>, ded |-> <<>>]

\* the meter's owner keeps no record
WatchIdle ==
    /\ window = [phase |-> "idle", balance |-> 0, calls |-> 0, res |-> <<>>, ref |-> <<>>]
    /\ quotes = [fresh |-> FALSE, first |-> <<>>, seen |-> <<>>]

CodecIdle ==
    /\ schedule = <<>>
    /\ decoded = None
    /\ decoded_of = NoSource
    /\ encoded = <<>>
    /\ encoded_of = [params |-> None, source |-> NoSource]
    /\ codec_op = "none"

Init ==
    /\ \E name \in ParamNames, gas \in 0..MaxGas :
          /\ meter = new(ParamsNamed(name), gas)
          /\ init_gas = gas
          /\ init_params = name
    /\ was_zero = (meter.balance = 0)
    /\ last = [op |-> "new", inp |-> NoInput, cost |-> 0, called |-> FALSE,
               pre |-> Pre, res |-> "Ok", loc |-> "none", ret |-> 0]
    /\ CodecIdle
    /\ FleetIdle
    /\ WatchIdle

Next ==
    \/ Balance
    \/ CalWriteSetGas
    \/ DeductGas
    \/ SetMetering
    \/ ChargeIntrinsicGasForTransaction
    \/ ChargeSimpleInstr
    \/ ChargeCall
    \/ ChargeCallGeneric
    \/ ChargeLdConst
    \/ ChargeCopyLoc
    \/ ChargeMoveLoc
    \/ ChargeStoreLoc
    \/ ChargePack
    \/ ChargeUnpack
    \/ ChargeReadRef
    \/ ChargeWriteRef
    \/ ChargeEq
    \/ ChargeNeq
    \/ ChargeBorrowGlobal
    \/ ChargeExists
    \/ ChargeMoveFrom
    \/ ChargeMoveTo
    \/ ChargeVecPack
    \/ ChargeVecLen
    \/ ChargeVecBorrow
    \/ ChargeVecPushBack
    \/ ChargeVecPopBack
    \/ ChargeVecUnpack
    \/ ChargeVecSwap
    \/ ChargeLoadResource
    \/ ChargeNativeFunction

Spec == Init /\ [][Next]_vars


(***************************************************************************)
(* Claims about the meter, checked under Spec.                             *)
(***************************************************************************)
\* the balance a meter constructed with init_gas starts with
ConstructedBalance == to_unit_with_params(init_gas, meter.gas_params.txn)

\* C1: deduct_gas(amount) with charging enabled returns Ok and leaves
\* balance - amount when balance >= amount (amount = balance included), and
\* returns OUT_OF_GAS and leaves 0 when balance < amount.
C1_DeductGas ==
    (last.op = "deduct_gas" /\ last.pre.charge) =>
        IF last.pre.balance >= last.inp.n
        THEN last.res = "Ok" /\ meter.balance = last.pre.balance - last.inp.n
        ELSE last.res = "OUT_OF_GAS" /\ meter.balance = 0

\* C1 witness: a deduction of exactly the (positive) balance has succeeded
C1_Witness ==
    /\ last.op = "deduct_gas" /\ last.pre.charge
    /\ last.inp.n = last.pre.balance /\ last.inp.n > 0
    /\ last.res = "Ok" /\ meter.balance = 0

\* C2: with charging enabled the balance after a deduction is
\* max(0, previous balance - amount); over every call the balance never
\* increases, is never negative and never exceeds the constructed balance.
C2_MonotonicDeduction ==
    /\ (last.called /\ last.pre.charge) =>
           meter.balance = Max(0, last.pre.balance - last.cost)
    /\ meter.balance <= last.pre.balance
    /\ 0 <= meter.balance
    /\ meter.balance <= ConstructedBalance

\* C2 witness: a charge method has cost more than a positive balance, which is now 0
C2_Witness ==
    /\ last.op \in ChargeNames /\ last.called /\ last.pre.charge
    /\ last.pre.balance > 0 /\ last.cost > last.pre.balance
    /\ meter.balance = 0

\* C3 as stated: once the balance has been 0, every later deduction of an
\* amount > 0 fails with OUT_OF_GAS whatever calls came in between, and a
\* deduction of 0 always succeeds.
C3_StickyExhaustionAsStated ==
    /\ (last.called /\ last.pre.was_zero /\ last.cost > 0) => last.res = "OUT_OF_GAS"
    /\ (last.called /\ last.cost = 0) => last.res = "Ok"

\* C3 amended: once the balance has been 0, a later deduction of an amount > 0
\* fails with OUT_OF_GAS (and leaves 0) if charging is enabled when it is made,
\* and succeeds without effect if charging is disabled; a deduction of 0
\* always succeeds.
C3_StickyExhaustion ==
    /\ (last.called /\ last.pre.was_zero /\ last.cost > 0 /\ last.pre.charge) =>
           (last.res = "OUT_OF_GAS" /\ meter.balance = 0)
    /\ (last.called /\ last.pre.was_zero /\ last.cost > 0 /\ ~last.pre.charge) =>
           (last.res = "Ok" /\ meter.balance = 0)
    /\ (last.called /\ last.cost = 0) => last.res = "Ok"

\* C3 witness: a meter that started with gas is exhausted, and a deduction of
\* an amount > 0 made with charging enabled has failed
C3_Witness ==
    /\ last.called /\ last.pre.was_zero /\ last.pre.charge /\ last.cost > 0
    /\ ConstructedBalance > 0
    /\ last.res = "OUT_OF_GAS"

\* C4: while charging is disabled no deduction, of any amount, changes the
\* balance or fails.
C4_ChargingToggle ==
    (last.called /\ ~last.pre.charge) =>
        (last.res = "Ok" /\ meter.balance = last.pre.balance)

\* C4 witness: with charging disabled, a deduction of more than the (positive)
\* balance has succeeded and left the balance as it was
C4_Witness ==
    /\ last.op = "deduct_gas" /\ ~last.pre.charge
    /\ last.inp.n > last.pre.balance /\ last.pre.balance > 0
    /\ last.res = "Ok" /\ meter.balance = last.pre.balance

\* C5 as stated: on a meter constructed with zeros() and charging enabled,
\* no charge method (charge_native_function included) reduces the balance or
\* fails, whatever its operands.
C5_ZeroScheduleAsStated ==
    (meter.gas_params = StarcoinGasParameters_zeros /\ last.pre.charge
        /\ last.op \in ChargeNames) =>
        (last.res = "Ok" /\ meter.balance = last.pre.balance)

\* C5 amended: on a meter constructed with zeros() and charging enabled, every
\* charge method that computes its cost from the schedule costs 0, succeeds
\* and leaves the balance; charge_native_function deducts the amount it is
\* given, so it is free exactly when that amount is 0.
C5_ZeroScheduleFree ==
    (meter.gas_params = StarcoinGasParameters_zeros /\ last.pre.charge
        /\ last.op \in ChargeNames) =>
        IF last.op = "charge_native_function"
        THEN /\ last.cost = last.inp.n
             /\ meter.balance = Max(0, last.pre.balance - last.inp.n)
             /\ (last.res = "Ok") = (last.inp.n <= last.pre.balance)
        ELSE last.cost = 0 /\ last.res = "Ok" /\ meter.balance = last.pre.balance

\* C5 witness: a struct with fields has been packed on a zeros() meter with a
\* positive balance, which it left unchanged
C5_Witness ==
    /\ meter.gas_params = StarcoinGasParameters_zeros /\ last.pre.charge
    /\ last.op = "charge_pack" /\ Len(last.inp.args) > 0
    /\ last.res = "Ok" /\ meter.balance = last.pre.balance /\ meter.balance > 0

\* C10: balance() returns the floor of the internal balance over the scale
\* factor: balance() * scale <= internal balance < (balance() + 1) * scale;
\* and it leaves the meter as it was.
C10_BalanceRoundsDown ==
    last.op = "balance" =>
        /\ last.ret * scaling_factor(meter.gas_params.txn) <= meter.balance
        /\ meter.balance < (last.ret + 1) * scaling_factor(meter.gas_params.txn)
        /\ meter.balance = last.pre.balance
        /\ meter.charge = last.pre.charge

\* C10 witness: balance() was called on an internal balance that is no multiple
\* of the scale factor, and returned a positive amount
C10_Witness ==
    /\ last.op = "balance"
    /\ meter.balance % scaling_factor(meter.gas_params.txn) # 0
    /\ last.ret > 0


\* the gas parameters the meter was constructed from
InitParams == ParamsNamed(init_params)

\* the meter the last call was made on
PreMeter ==
    [gas_params |-> InitParams, balance |-> last.pre.balance, charge |-> last.pre.charge]

\* C11: with charging enabled and a balance that covers it, charge_call with
\* n value arguments deducts exactly call_per_arg * (n + 1), and
\* charge_call_generic with t type and n value arguments deducts exactly
\* call_generic_per_arg * (t + n + 1); rate 2 with 3 arguments costs 8, and
\* rate 3 with 1 type argument and 2 value arguments costs 12.
C11_CallCostFormula ==
    /\ (last.op = "charge_call" /\ last.pre.charge
        /\ last.pre.balance >= InitParams.instr["call_per_arg"] * (last.inp.n + 1)) =>
           /\ last.res = "Ok"
           /\ last.pre.balance - meter.balance =
                  InitParams.instr["call_per_arg"] * (last.inp.n + 1)
    /\ (last.op = "charge_call_generic" /\ last.pre.charge
        /\ last.pre.balance >=
               InitParams.instr["call_generic_per_arg"] * (last.inp.t + last.inp.n + 1)) =>
           /\ last.res = "Ok"
           /\ last.pre.balance - meter.balance =
                  InitParams.instr["call_generic_per_arg"] * (last.inp.t + last.inp.n + 1)
    /\ call_cost([instr |-> [StarcoinGasParameters_zeros.instr
                                EXCEPT !["call_per_arg"] = 2]], 3) = 8
    /\ call_generic_cost([instr |-> [StarcoinGasParameters_zeros.instr
                                        EXCEPT !["call_generic_per_arg"] = 3]], 1, 2) = 12

\* C11 witness: a generic call with type and value arguments, at a non-zero
\* rate, has been charged from a balance that covered it
C11_Witness ==
    /\ last.op = "charge_call_generic" /\ last.pre.charge
    /\ last.inp.t > 0 /\ last.inp.n > 0
    /\ InitParams.instr["call_generic_per_arg"] > 1
    /\ last.res = "Ok" /\ meter.balance < last.pre.balance

\* the move-from rate the generic flag selects
MoveFromRate ==
    IF last.inp.is_generic THEN InitParams.instr["move_from_generic_per_abs_mem_unit"]
                           ELSE InitParams.instr["move_from_per_abs_mem_unit"]

\* C12: charge_move_from with no value succeeds and leaves the balance and
\* the flag, for every rate, generic flag, balance and charging flag; with a
\* value and charging enabled it deducts rate * size, the rate selected by
\* the generic flag.
C12_MoveFromAbsentFree ==
    last.op = "charge_move_from" =>
        IF last.inp.args = <<>>
        THEN /\ last.res = "Ok"
             /\ meter.balance = last.pre.balance
             /\ meter.charge = last.pre.charge
        ELSE last.pre.charge =>
                /\ meter.balance =
                       Max(0, last.pre.balance - MoveFromRate * last.inp.args[1])
                /\ (last.res = "Ok") =
                       (MoveFromRate * last.inp.args[1] <= last.pre.balance)

\* C12 witness: a move-from of an absent resource has been charged at balance
\* 0, with charging enabled and non-zero rates
C12_Witness ==
    /\ last.op = "charge_move_from" /\ last.inp.args = <<>>
    /\ last.pre.charge /\ last.pre.balance = 0 /\ ConstructedBalance > 0
    /\ MoveFromRate > 0
    /\ last.res = "Ok"

\* C13: every charge method returns what deduct_gas returns for its cost and
\* leaves the meter deduct_gas leaves; so with charging enabled it fails iff
\* its cost exceeds the balance, a failure is OUT_OF_GAS, and after a failed
\* charge balance() is 0.
C13_FailureSemantics ==
    last.op \in ChargeNames =>
        /\ last.res = deduct_gas(PreMeter, last.cost).res
        /\ meter = deduct_gas(PreMeter, last.cost).m
        /\ last.res \in {"Ok", "OUT_OF_GAS"}
        /\ last.pre.charge => ((last.res # "Ok") <=> (last.cost > last.pre.balance))
        /\ last.res # "Ok" => balance(meter) = 0

\* C13 witness: a method of impl GasMeter has failed on a positive balance
C13_Witness ==
    /\ last.op \in ChargeNames \ {"charge_intrinsic_gas_for_transaction"}
    /\ last.pre.charge /\ last.pre.balance > 0
    /\ last.res = "OUT_OF_GAS" /\ balance(meter) = 0

\* base + per-byte rate * size, of the parameters the meter was built from
IntrinsicCost ==
    InitParams.txn["min_transaction_gas_units"]
    + InitParams.txn["intrinsic_gas_per_byte"] * last.inp.n

\* C14: charge_intrinsic_gas_for_transaction(txn_size) deducts exactly
\* base + per_byte * txn_size when charging is enabled and the balance
\* covers it; fails with OUT_OF_GAS at the undefined location and leaves 0
\* when the balance is smaller; succeeds and leaves the balance when charging
\* is disabled.
C14_IntrinsicCharge ==
    last.op = "charge_intrinsic_gas_for_transaction" =>
        IF ~last.pre.charge
        THEN last.res = "Ok" /\ meter.balance = last.pre.balance
        ELSE IF last.pre.balance >= IntrinsicCost
             THEN /\ last.res = "Ok"
                  /\ meter.balance = last.pre.balance - IntrinsicCost
             ELSE /\ last.res = "OUT_OF_GAS"
                  /\ last.loc = "Undefined"
                  /\ meter.balance = 0

\* C14 witness: the intrinsic charge of a transaction with bytes has failed
\* on a positive balance
C14_Witness ==
    /\ last.op = "charge_intrinsic_gas_for_transaction"
    /\ last.pre.charge /\ last.inp.n > 0
    /\ 0 < last.pre.balance /\ last.pre.balance < IntrinsicCost
    /\ last.res = "OUT_OF_GAS"

\* C15: cal_write_set_gas deducts nothing, leaves the balance, the flag and
\* the parameters, and returns at every point of the meter's life the value
\* it returns right after construction, which depends on the transaction
\* group only.
C15_CalWriteSetGasPure ==
    last.op = "cal_write_set_gas" =>
        /\ meter.balance = last.pre.balance
        /\ meter.charge = last.pre.charge
        /\ meter.gas_params = InitParams
        /\ last.ret = cal_write_set_gas(new(InitParams, init_gas))
        /\ last.ret = InitParams.txn["global_memory_per_byte_write_cost"]
                          * InitParams.txn["default_account_size"]

\* C15 witness: cal_write_set_gas has returned a non-zero cost on a meter
\* whose balance has been reduced and whose charging is disabled
C15_Witness ==
    /\ last.op = "cal_write_set_gas"
    /\ meter.balance < ConstructedBalance /\ ~meter.charge
    /\ last.ret > 0


\* C18: charge_borrow_global deducts one of four constants selected by
\* (is_mut, is_generic) only, charge_vec_borrow one of two selected by is_mut
\* only, charge_vec_pop_back the pop-back base cost, charge_move_to
\* rate(is_generic) * size: the same amount whether is_success is true or
\* false and whether or not a value was popped.
C18_SuccessIndependentCharges ==
    LET instr == InitParams.instr
        fixed ==
            CASE last.op = "charge_borrow_global" ->
                   IF last.inp.is_mut
                   THEN IF last.inp.is_generic THEN instr["mut_borrow_global_generic_base"]
                                               ELSE instr["mut_borrow_global_base"]
                   ELSE IF last.inp.is_generic THEN instr["imm_borrow_global_generic_base"]
                                               ELSE instr["imm_borrow_global_base"]
              [] last.op = "charge_vec_borrow" ->
                   IF last.inp.is_mut THEN instr["vec_mut_borrow_base"]
                                      ELSE instr["vec_imm_borrow_base"]
              [] last.op = "charge_vec_pop_back" -> instr["vec_pop_back_base"]
              [] last.op = "charge_move_to" ->
                   last.inp.n * (IF last.inp.is_generic
                                 THEN instr["move_to_generic_per_abs_mem_unit"]
                                 ELSE instr["move_to_per_abs_mem_unit"])
    IN  last.op \in {"charge_borrow_global", "charge_vec_borrow",
                     "charge_vec_pop_back", "charge_move_to"} =>
            /\ last.cost = fixed
            /\ last.pre.charge =>
                  /\ meter.balance = Max(0, last.pre.balance - fixed)
                  /\ (last.res = "Ok") = (fixed <= last.pre.balance)

\* C18 witness: a failed mutable generic borrow (is_success false) has been
\* charged its non-zero constant from a balance that covered it
C18_Witness ==
    /\ last.op = "charge_borrow_global" /\ ~last.inp.flag
    /\ last.inp.is_mut /\ last.inp.is_generic
    /\ last.pre.charge /\ last.res = "Ok"
    /\ last.pre.balance - meter.balance = InitParams.instr["mut_borrow_global_generic_base"]
    /\ meter.balance < last.pre.balance

\* the exists rate the generic flag selects
ExistsRate ==
    IF last.inp.is_generic THEN InitParams.instr["exists_generic_per_abs_mem_unit"]
                           ELSE InitParams.instr["exists_per_abs_mem_unit"]

RECURSIVE Total(_)
Total(sizes) == IF sizes = <<>> THEN 0 ELSE Head(sizes) + Total(Tail(sizes))

\* the pack or unpack rate the generic flag selects
PackRate ==
    LET instr == InitParams.instr IN
    IF last.op = "charge_pack"
    THEN IF last.inp.is_generic THEN instr["pack_generic_per_abs_mem_unit"]
                                ELSE instr["pack_per_abs_mem_unit"]
    ELSE IF last.inp.is_generic THEN instr["unpack_generic_per_abs_mem_unit"]
                                ELSE instr["unpack_per_abs_mem_unit"]

\* C20: charge_pack and charge_unpack deduct
\* rate * (field_count + sum of the fields' sizes), the rate selected by the
\* operation and the generic flag; with no field the cost is 0, and with k
\* fields it is at least rate * k.
C20_PackUnpackCost ==
    last.op \in {"charge_pack", "charge_unpack"} =>
        LET k == Len(last.inp.args)
            cost == PackRate * (k + Total(last.inp.args))
        IN  /\ last.cost = cost
            /\ last.pre.charge =>
                  /\ meter.balance = Max(0, last.pre.balance - cost)
                  /\ (last.res = "Ok") = (cost <= last.pre.balance)
            /\ k = 0 => last.cost = 0
            /\ last.cost >= PackRate * k

\* C20 witness: a generic unpack of two fields of size 0 has been charged
\* rate * 2 from a balance that covered it
C20_Witness ==
    /\ last.op = "charge_unpack" /\ last.inp.is_generic
    /\ Len(last.inp.args) = 2 /\ Total(last.inp.args) = 0
    /\ last.pre.charge /\ PackRate > 0
    /\ last.res = "Ok" /\ last.pre.balance - meter.balance = PackRate * 2


\* C21: charge_load_resource succeeds and leaves the balance, the charging
\* flag and the parameters unchanged, for every loaded size (present or
\* absent), every schedule and every state of the meter, balance 0 with
\* charging enabled included; it hands nothing to deduct_gas.
C21_LoadResourceFree ==
    last.op = "charge_load_resource" =>
        /\ last.res = "Ok"
        /\ meter.balance = last.pre.balance
        /\ meter.charge = last.pre.charge
        /\ meter.gas_params = InitParams
        /\ ~last.called

\* C21 witness: on a meter with a non-zero schedule, charging enabled and
\* balance 0, a present resource of positive size was loaded and the call
\* succeeded
C21_Witness ==
    /\ last.op = "charge_load_resource"
    /\ last.inp.args # <<>> /\ last.inp.args[1] > 0
    /\ InitParams # StarcoinGasParameters_zeros
    /\ last.pre.charge /\ last.pre.balance = 0 /\ init_gas > 0
    /\ last.res = "Ok" /\ meter.balance = 0 /\ meter.charge


(***************************************************************************)
(* The codec's specification: governance has published a schedule (a full  *)
(* schedule of some parameter set, possibly reordered, with an entry       *)
(* missing or an unknown entry added); the node decodes it, builds         *)
(* initial() or zeros(), encodes parameters, and publishes an encoding.    *)
(***************************************************************************)
\* every name of every group, misc included, with a parameter set's values
full_schedule(params) ==
    group_to_on_chain_gas_schedule(MiscNames, params.misc)
    \o group_to_on_chain_gas_schedule(InstrNames, params.instr)
    \o group_to_on_chain_gas_schedule(TxnNames, params.txn)
    \o group_to_on_chain_gas_schedule(MoveStdlibNames, params.natives.move_stdlib)
    \o group_to_on_chain_gas_schedule(NurseryNames, params.natives.nursery)
    \o group_to_on_chain_gas_schedule(StarcoinNativesNames, params.natives.starcoin_natives)
    \o group_to_on_chain_gas_schedule(TableNames, params.natives.table)

Remove(entries, i) == SubSeq(entries, 1, i - 1) \o SubSeq(entries, i + 1, Len(entries))

Reverse(entries) == [i \in 1..Len(entries) |-> entries[Len(entries) + 1 - i]]

\* the entries at odd positions, then those at even positions
Shuffle(entries) ==
    LET n == Len(entries)
        odd == (n + 1) \div 2
    IN  [i \in 1..n |-> IF i <= odd THEN entries[2 * i - 1] ELSE entries[2 * (i - odd)]]

RECURSIVE Shuffled(_, _)
Shuffled(entries, k) == IF k = 0 THEN entries ELSE Shuffled(Shuffle(entries), k - 1)

Reordered(entries) ==
    UNION {{Shuffled(entries, k), Reverse(Shuffled(entries, k))} : k \in 0..MaxShuffles}

\* a schedule with no entry or any one entry missing
WithMissing(entries) == {entries} \cup {Remove(entries, i) : i \in 1..Len(entries)}

WithUnknown(entries) == {entries, Append(entries, <<UnknownName, 7>>)}

ScheduleInputs ==
    UNION {UNION {UNION {Reordered(u) : u \in WithUnknown(e)}
                     : e \in WithMissing(full_schedule(params))}
              : params \in ParamChoices}

CodecInit ==
    /\ meter = new(StarcoinGasParameters_zeros, 0)
    /\ init_gas = 0
    /\ init_params = "zeros"
    /\ was_zero = TRUE
    /\ last = [op |-> "new", inp |-> NoInput, cost |-> 0, called |-> FALSE,
               pre |-> Pre, res |-> "Ok", loc |-> "none", ret |-> 0]
    /\ schedule \in ScheduleInputs
    /\ decoded = None
    /\ decoded_of = NoSource
    /\ encoded = <<>>
    /\ encoded_of = [params |-> None, source |-> NoSource]
    /\ codec_op = "publish"
    /\ FleetIdle
    /\ WatchIdle

\* StarcoinGasParameters::from_on_chain_gas_schedule(&schedule.to_btree_map())
FromOnChainGasSchedule ==
    /\ decoded' = StarcoinGasParameters_from_on_chain_gas_schedule(to_btree_map(schedule))
    /\ decoded_of' = [kind |-> "schedule", entries |-> schedule]
    /\ codec_op' = "from_on_chain_gas_schedule"
    /\ UNCHANGED <<schedule, encoded, encoded_of, meter_vars, fleet, window, quotes>>

\* StarcoinGasParameters::initial()
InitialGasSchedule ==
    /\ decoded' = Some(StarcoinGasParameters_initial)
    /\ decoded_of' = [kind |-> "initial", entries |-> <<>>]
    /\ codec_op' = "initial"
    /\ UNCHANGED <<schedule, encoded, encoded_of, meter_vars, fleet, window, quotes>>

\* StarcoinGasParameters::zeros()
Zeros ==
    /\ decoded' = Some(StarcoinGasParameters_zeros)
    /\ decoded_of' = [kind |-> "zeros", entries |-> <<>>]
    /\ codec_op' = "zeros"
    /\ UNCHANGED <<schedule, encoded, encoded_of, meter_vars, fleet, window, quotes>>

\* params.to_on_chain_gas_schedule() on the parameters last obtained
ToOnChainGasSchedule ==
    /\ decoded # None
    /\ encoded' = StarcoinGasParameters_to_on_chain_gas_schedule(decoded[1])
    /\ encoded_of' = [params |-> decoded, source |-> decoded_of]
    /\ codec_op' = "to_on_chain_gas_schedule"
    /\ UNCHANGED <<schedule, decoded, decoded_of, meter_vars, fleet, window, quotes>>

\* the last encoding is published as the on-chain schedule
PublishEncoded ==
    /\ encoded_of.params # None
    /\ schedule' = encoded
    /\ decoded' = None
    /\ decoded_of' = NoSource
    /\ encoded' = <<>>
    /\ encoded_of' = [params |-> None, source |-> NoSource]
    /\ codec_op' = "publish"
    /\ UNCHANGED <<meter_vars, fleet, window, quotes>>

CodecNext ==
    \/ FromOnChainGasSchedule
    \/ InitialGasSchedule
    \/ Zeros
    \/ ToOnChainGasSchedule
    \/ PublishEncoded

CodecSpec == CodecInit /\ [][CodecNext]_vars


(***************************************************************************)
(* Claims about the schedule codec, checked under CodecSpec.               *)
(***************************************************************************)
\* the names to_on_chain_gas_schedule lists, in its order
EncodedNames ==
    InstrNames \o TxnNames \o MoveStdlibNames \o NurseryNames
    \o StarcoinNativesNames \o TableNames

\* the names of a schedule's entries
NamesOf(entries) == {entries[i][1] : i \in 1..Len(entries)}

\* the value a schedule gives a name
Lookup(entries, name) ==
    entries[CHOOSE i \in 1..Len(entries) : entries[i][1] = name][2]

\* an encoding exists, of parameters that were decoded from a schedule
EncodedFromSchedule ==
    encoded_of.params # None /\ encoded_of.source.kind = "schedule"

\* C6 as stated: for every schedule S that decoding accepts,
\* encode(decode(S)) equals S in names, values and order.
C6_RoundTripAsStated ==
    EncodedFromSchedule => encoded = encoded_of.source.entries

\* C6 amended: for every schedule S that decoding accepts, encode(decode(S))
\* lists exactly the instruction, transaction and native names, in the
\* encoding's own order, each with the value S gives that name: it is S's
\* entries of those names rearranged, without S's miscellaneous and unknown
\* entries.
C6_RoundTripByName ==
    EncodedFromSchedule =>
        /\ Len(encoded) = Len(EncodedNames)
        /\ \A i \in 1..Len(encoded) :
              encoded[i] = <<EncodedNames[i],
                             Lookup(encoded_of.source.entries, EncodedNames[i])>>
        /\ Range(encoded) =
              {e \in Range(encoded_of.source.entries) : e[1] \in Range(EncodedNames)}

\* C6 witness: a schedule that holds an unknown entry and does not start with
\* the instruction group has been decoded, and the result encoded
C6_Witness ==
    /\ EncodedFromSchedule
    /\ codec_op = "to_on_chain_gas_schedule"
    /\ UnknownName \in NamesOf(encoded_of.source.entries)
    /\ encoded_of.source.entries[1][1] # InstrNames[1]

\* C7: the encoding of initial(), decoded, gives Some(p), and p's encoding is
\* that encoding again.
C7_InitialRoundTrip ==
    (/\ decoded_of.kind = "schedule"
     /\ decoded_of.entries =
            StarcoinGasParameters_to_on_chain_gas_schedule(StarcoinGasParameters_initial))
    => /\ decoded # None
       /\ StarcoinGasParameters_to_on_chain_gas_schedule(decoded[1]) = decoded_of.entries

\* the names decoding looks up
RequiredNames == Range(MiscNames) \cup Range(EncodedNames)

\* C8: decoding returns None whenever a name of any group is missing from
\* the schedule; otherwise it returns Some(p) where every field of every
\* group of p is the schedule's value for that field's name; and the result
\* is the same for the schedule's entries in another order.
C8_DecodeAllOrNothing ==
    decoded_of.kind = "schedule" =>
        LET entries == decoded_of.entries IN
        /\ IF ~(RequiredNames \subseteq NamesOf(entries))
           THEN decoded = None
           ELSE /\ decoded # None
                /\ DOMAIN decoded[1].misc = Range(MiscNames)
                /\ \A n \in Range(MiscNames) : decoded[1].misc[n] = Lookup(entries, n)
                /\ DOMAIN decoded[1].instr = Range(InstrNames)
                /\ \A n \in Range(InstrNames) : decoded[1].instr[n] = Lookup(entries, n)
                /\ DOMAIN decoded[1].txn = Range(TxnNames)
                /\ \A n \in Range(TxnNames) : decoded[1].txn[n] = Lookup(entries, n)
                /\ DOMAIN decoded[1].natives.move_stdlib = Range(MoveStdlibNames)
                /\ \A n \in Range(MoveStdlibNames) :
                      decoded[1].natives.move_stdlib[n] = Lookup(entries, n)
                /\ DOMAIN decoded[1].natives.nursery = Range(NurseryNames)
                /\ \A n \in Range(NurseryNames) :
                      decoded[1].natives.nursery[n] = Lookup(entries, n)
                /\ DOMAIN decoded[1].natives.starcoin_natives = Range(StarcoinNativesNames)
                /\ \A n \in Range(StarcoinNativesNames) :
                      decoded[1].natives.starcoin_natives[n] = Lookup(entries, n)
                /\ DOMAIN decoded[1].natives.table = Range(TableNames)
                /\ \A n \in Range(TableNames) :
                      decoded[1].natives.table[n] = Lookup(entries, n)
        /\ decoded =
              StarcoinGasParameters_from_on_chain_gas_schedule(
                  to_btree_map(Reverse(Shuffle(entries))))

\* C8 witness: a schedule that lacks only a name of the table group, the last
\* sub-group of natives, has been decoded to None
C8_Witness ==
    /\ decoded_of.kind = "schedule"
    /\ codec_op = "from_on_chain_gas_schedule"
    /\ RequiredNames \ NamesOf(decoded_of.entries) = {TableNames[1]}
    /\ decoded = None

\* C9: an encoding is the instruction group's pairs, then the transaction
\* group's, then the natives': standard library, nursery, chain natives,
\* table, in that order; no pair of the miscellaneous group is in it.
C9_EncodingOrder ==
    encoded_of.params # None =>
        LET p == encoded_of.params[1]
            i0 == Len(InstrNames)
            t0 == i0 + Len(TxnNames)
            s0 == t0 + Len(MoveStdlibNames)
            n0 == s0 + Len(NurseryNames)
            c0 == n0 + Len(StarcoinNativesNames)
        IN  /\ Len(encoded) = c0 + Len(TableNames)
            /\ \A i \in 1..Len(InstrNames) :
                  encoded[i] = <<InstrNames[i], p.instr[InstrNames[i]]>>
            /\ \A i \in 1..Len(TxnNames) :
                  encoded[i0 + i] = <<TxnNames[i], p.txn[TxnNames[i]]>>
            /\ \A i \in 1..Len(MoveStdlibNames) :
                  encoded[t0 + i] =
                      <<MoveStdlibNames[i], p.natives.move_stdlib[MoveStdlibNames[i]]>>
            /\ \A i \in 1..Len(NurseryNames) :
                  encoded[s0 + i] = <<NurseryNames[i], p.natives.nursery[NurseryNames[i]]>>
            /\ \A i \in 1..Len(StarcoinNativesNames) :
                  encoded[n0 + i] =
                      <<StarcoinNativesNames[i],
                        p.natives.starcoin_natives[StarcoinNativesNames[i]]>>
            /\ \A i \in 1..Len(TableNames) :
                  encoded[c0 + i] = <<TableNames[i], p.natives.table[TableNames[i]]>>
            /\ NamesOf(encoded) \cap Range(MiscNames) = {}

\* C9 witness: initial(), whose miscellaneous constants are not 0, has been encoded
C9_Witness ==
    /\ codec_op = "to_on_chain_gas_schedule"
    /\ encoded_of.source.kind = "initial"
    /\ \E n \in Range(MiscNames) : encoded_of.params[1].misc[n] > 0
    /\ Len(encoded) > 0

(***************************************************************************)
(* Several meters.  Each execution builds its own meter from the same gas  *)
(* parameters; the owners call their meters in any interleaving, or make   *)
(* the same call on every meter.  solo is each meter run on its own.       *)
(***************************************************************************)
MeterIds == {1, 2}

Call(op, inp) == [op |-> op, inp |-> inp]

\* every call of a meter's interface, with its inputs
Calls ==
    {Call("balance", NoInput), Call("cal_write_set_gas", NoInput),
     Call("charge_vec_len", NoInput), Call("charge_vec_swap", NoInput)}
    \cup {Call("deduct_gas", [NoInput EXCEPT !.n = a]) : a \in Amounts}
    \cup {Call("set_metering", [NoInput EXCEPT !.flag = b]) : b \in BOOLEAN}
    \cup {Call("charge_intrinsic_gas_for_transaction", [NoInput EXCEPT !.n = sz])
             : sz \in Sizes}
    \cup {Call("charge_simple_instr", [NoInput EXCEPT !.n = i])
             : i \in 1..Len(SimpleInstrNames)}
    \cup {Call("charge_call", [NoInput EXCEPT !.n = n]) : n \in Counts}
    \cup {Call("charge_call_generic", [NoInput EXCEPT !.n = n, !.t = t])
             : n \in Counts, t \in Counts}
    \cup {Call(op, [NoInput EXCEPT !.n = sz])
             : op \in {"charge_ld_const", "charge_copy_loc", "charge_move_loc",
                       "charge_store_loc", "charge_read_ref", "charge_write_ref",
                       "charge_vec_push_back"},
               sz \in Sizes}
    \cup {Call(op, [NoInput EXCEPT !.is_generic = g, !.args = args])
             : op \in {"charge_pack", "charge_unpack"}, g \in BOOLEAN, args \in ArgLists}
    \cup {Call(op, [NoInput EXCEPT !.n = lhs, !.t = rhs])
             : op \in {"charge_eq", "charge_neq"}, lhs \in Sizes, rhs \in Sizes}
    \cup {Call("charge_borrow_global",
               [NoInput EXCEPT !.is_mut = mu, !.is_generic = g, !.flag = ok])
             : mu \in BOOLEAN, g \in BOOLEAN, ok \in BOOLEAN}
    \cup {Call("charge_exists", [NoInput EXCEPT !.is_generic = g, !.flag = ex])
             : g \in BOOLEAN, ex \in BOOLEAN}
    \cup {Call("charge_move_from", [NoInput EXCEPT !.is_generic = g, !.args = val])
             : g \in BOOLEAN, val \in OptSizes}
    \cup {Call("charge_move_to", [NoInput EXCEPT !.is_generic = g, !.n = sz, !.flag = ok])
             : g \in BOOLEAN, sz \in Sizes, ok \in BOOLEAN}
    \cup {Call(op, [NoInput EXCEPT !.n = n])
             : op \in {"charge_vec_pack", "charge_vec_unpack"}, n \in Counts}
    \cup {Call("charge_vec_borrow", [NoInput EXCEPT !.is_mut = mu, !.flag = ok])
             : mu \in BOOLEAN, ok \in BOOLEAN}
    \cup {Call(op, [NoInput EXCEPT !.args = val])
             : op \in {"charge_vec_pop_back", "charge_load_resource"}, val \in OptSizes}
    \cup {Call("charge_native_function", [NoInput EXCEPT !.n = a]) : a \in Amounts}

\* the call c made on meter m: the meter after it and what it returned
invoke(m, c) ==
    LET i == c.inp IN
    CASE c.op = "balance" -> Ok(m)
      [] c.op = "cal_write_set_gas" -> Ok(m)
      [] c.op = "deduct_gas" -> deduct_gas(m, i.n)
      [] c.op = "set_metering" -> Ok(set_metering(m, i.flag))
      [] c.op = "charge_intrinsic_gas_for_transaction" ->
             charge_intrinsic_gas_for_transaction(m, i.n)
      [] c.op = "charge_simple_instr" -> charge_simple_instr(m, SimpleInstrNames[i.n])
      [] c.op = "charge_call" -> charge_call(m, i.n)
      [] c.op = "charge_call_generic" -> charge_call_generic(m, i.t, i.n)
      [] c.op = "charge_ld_const" -> charge_ld_const(m, i.n)
      [] c.op = "charge_copy_loc" -> charge_copy_loc(m, i.n)
      [] c.op = "charge_move_loc" -> charge_move_loc(m, i.n)
      [] c.op = "charge_store_loc" -> charge_store_loc(m, i.n)
      [] c.op = "charge_pack" -> charge_pack(m, i.is_generic, i.args)
      [] c.op = "charge_unpack" -> charge_unpack(m, i.is_generic, i.args)
      [] c.op = "charge_read_ref" -> charge_read_ref(m, i.n)
      [] c.op = "charge_write_ref" -> charge_write_ref(m, i.n)
      [] c.op = "charge_eq" -> charge_eq(m, i.n, i.t)
      [] c.op = "charge_neq" -> charge_neq(m, i.n, i.t)
      [] c.op = "charge_borrow_global" ->
             charge_borrow_global(m, i.is_mut, i.is_generic, i.flag)
      [] c.op = "charge_exists" -> charge_exists(m, i.is_generic, i.flag)
      [] c.op = "charge_move_from" -> charge_move_from(m, i.is_generic, i.args)
      [] c.op = "charge_move_to" -> charge_move_to(m, i.is_generic, i.n, i.flag)
      [] c.op = "charge_vec_pack" -> charge_vec_pack(m, i.n)
      [] c.op = "charge_vec_len" -> charge_vec_len(m)
      [] c.op = "charge_vec_borrow" -> charge_vec_borrow(m, i.is_mut, i.flag)
      [] c.op = "charge_vec_push_back" -> charge_vec_push_back(m, i.n)
      [] c.op = "charge_vec_pop_back" -> charge_vec_pop_back(m, i.args)
      [] c.op = "charge_vec_unpack" -> charge_vec_unpack(m, i.n)
      [] c.op = "charge_vec_swap" -> charge_vec_swap(m)
      [] c.op = "charge_load_resource" -> charge_load_resource(m, i.args)
      [] c.op = "charge_native_function" -> charge_native_function(m, i.n)

\* what the caller of c on m sees: the result r of the call, its location,
\* and the value returned
returned(m, c, r) ==
    <<r.res, r.loc,
      CASE c.op = "balance" -> balance(m)
        [] c.op = "cal_write_set_gas" -> cal_write_set_gas(m)
        [] OTHER -> 0>>

\* a call on one meter writes the fields of every meter (one shared balance)
apply_to_shared(meters, id, r) == [j \in DOMAIN meters |-> r.m]

\* a call on meter id writes that meter's own fields
apply_to(meters, id, r) == [meters EXCEPT ![id] = r.m]

\* the balance and flag of a meter run alone, and that meter
alone(m) == [balance |-> m.balance, charge |-> m.charge]
solo_meter(id) ==
    [gas_params |-> ParamsNamed(fleet.params),
     balance    |-> fleet.solo[id].balance,
     charge     |-> fleet.solo[id].charge]

\* what a meter's owner holds when it has not just called
NoResult == <<"Ok", "none", 0>>

\* the external gas a meter of the fleet is built with
FleetGas == 0..(MaxGas - 1)

FleetInit ==
    /\ \E name \in ParamNames, gas \in [MeterIds -> FleetGas] :
          fleet = [params     |-> name,
                   gas        |-> gas,
                   meters     |-> [id \in MeterIds |-> new(ParamsNamed(name), gas[id])],
                   solo       |-> [id \in MeterIds |-> alone(new(ParamsNamed(name), gas[id]))],
                   same_calls |-> TRUE,
                   who        |-> {},
                   res        |-> [id \in MeterIds |-> NoResult],
                   solo_res   |-> [id \in MeterIds |-> NoResult],
                   charged    |-> [id \in MeterIds |-> FALSE],
                   ded        |-> [id \in MeterIds |-> 0]]
    /\ meter = new(StarcoinGasParameters_zeros, 0)
    /\ init_gas = 0
    /\ init_params = "zeros"
    /\ was_zero = TRUE
    /\ last = [op |-> "new", inp |-> NoInput, cost |-> 0, called |-> FALSE,
               pre |-> Pre, res |-> "Ok", loc |-> "none", ret |-> 0]
    /\ CodecIdle
    /\ WatchIdle

\* the owners in who make the call c, one after the other
Operate(who, c, same) ==
    LET r1 == invoke(fleet.meters[1], c)
        first == IF 1 \in who THEN apply_to(fleet.meters, 1, r1) ELSE fleet.meters
        r2 == invoke(first[2], c)
        after == IF 2 \in who THEN apply_to(first, 2, r2) ELSE first
        \* the meter owner id makes its call on, and the call's result
        called_on == <<fleet.meters[1], first[2]>>
        r == <<r1, r2>>
        \* the same call made on the meter run alone
        s1 == invoke(solo_meter(1), c)
        s2 == invoke(solo_meter(2), c)
        sr == <<s1, s2>>
    IN  /\ fleet' = [fleet EXCEPT
              !.meters = after,
              !.solo = [id \in MeterIds |->
                          IF id \in who THEN alone(sr[id].m) ELSE fleet.solo[id]],
              !.same_calls = same,
              !.who = who,
              !.res = [id \in MeterIds |->
                          IF id \in who THEN returned(called_on[id], c, r[id])
                                        ELSE NoResult],
              !.solo_res = [id \in MeterIds |->
                              IF id \in who THEN returned(solo_meter(id), c, sr[id])
                                            ELSE NoResult],
              !.charged = [id \in MeterIds |->
                              id \in who /\ fleet.meters[id].charge
                              /\ c.op # "set_metering"],
              !.ded = [id \in MeterIds |-> fleet.meters[id].balance - after[id].balance]]
        /\ UNCHANGED <<meter_vars, codec_vars, window, quotes>>

\* the same call is made on every meter
OperateAll == \E c \in Calls : Operate(MeterIds, c, fleet.same_calls)

\* one owner calls its own meter
OperateOne == \E id \in MeterIds, c \in Calls : Operate({id}, c, FALSE)

FleetNext ==
    \/ OperateAll
    \/ OperateOne

FleetSpec == FleetInit /\ [][FleetNext]_vars


C17_MeterIsolation ==
    fleet.params \in ParamNames =>
        \A id \in MeterIds :
            /\ fleet.meters[id].balance = fleet.solo[id].balance
            /\ fleet.meters[id].charge = fleet.solo[id].charge
            /\ fleet.res[id] = fleet.solo_res[id]
            /\ fleet.meters[id].gas_params = ParamsNamed(fleet.params)

\* C17 witness: one owner's charge has just failed and emptied its meter
\* while the other meter, called earlier, keeps a positive balance below its
\* constructed one
C17_Witness ==
    /\ fleet.who = {1}
    /\ fleet.res[1][1] = "OUT_OF_GAS" /\ fleet.meters[1].balance = 0
    /\ fleet.meters[2].balance > 0
    /\ fleet.meters[2].balance
           < to_unit_with_params(fleet.gas[2], fleet.meters[2].gas_params.txn)


(***************************************************************************)
(* The metering window's specification: the owner of one meter calls it    *)
(* freely and records the stretch in which it had charging switched off:   *)
(* the balance when it switched it off, how many charges it made           *)
(* meanwhile, and what the first charge after switching it on again        *)
(* returned and left, next to what the same call returns and leaves on a   *)
(* meter that has the recorded balance and was never switched off.         *)
(***************************************************************************)
\* a record of no stretch: phase is "new" after new(), "none" later
NoWindow(phase) ==
    [phase |-> phase, balance |-> 0, calls |-> 0, res |-> <<>>, ref |-> <<>>]

WindowInit ==
    /\ \E name \in ParamNames, gas \in 0..MaxGas :
          /\ meter = new(ParamsNamed(name), gas)
          /\ init_gas = gas
          /\ init_params = name
    /\ was_zero = (meter.balance = 0)
    /\ last = [op |-> "new", inp |-> NoInput, cost |-> 0, called |-> FALSE,
               pre |-> Pre, res |-> "Ok", loc |-> "none", ret |-> 0]
    /\ window = NoWindow("new")
    /\ quotes = [fresh |-> FALSE, first |-> <<>>, seen |-> <<>>]
    /\ CodecIdle
    /\ FleetIdle

\* the owner makes the call c, and its record becomes w
InWindow(c, w) ==
    /\ meter' = invoke(meter, c).m
    /\ window' = w
    /\ UNCHANGED <<init_gas, init_params, last, was_zero, codec_vars, fleet, quotes>>

\* set_metering(false): a stretch begins with the balance before the call,
\* unless one is open
SwitchOff ==
    InWindow(Call("set_metering", [NoInput EXCEPT !.flag = FALSE]),
             IF window.phase = "off"
             THEN window
             ELSE [NoWindow("off") EXCEPT !.balance = meter.balance])

\* set_metering(true): the open stretch ends; with none open, the record is of
\* an empty stretch from the balance before the call
SwitchOn ==
    InWindow(Call("set_metering", [NoInput EXCEPT !.flag = TRUE]),
             CASE window.phase = "off" -> [window EXCEPT !.phase = "on"]
               [] window.phase = "on" -> window
               [] OTHER -> [NoWindow("on") EXCEPT !.balance = meter.balance])

\* a charge: counted in an open stretch; the first after a stretch is recorded
\* with what it returned, and with what it returns and leaves on a meter of
\* the same parameters and the recorded balance that has charging enabled
ChargeInWindow ==
    \E c \in {d \in Calls : d.op \notin {"balance", "cal_write_set_gas", "set_metering"}} :
        LET r == invoke(meter, c)
            f == invoke([gas_params |-> ParamsNamed(init_params),
                         balance    |-> window.balance,
                         charge     |-> TRUE], c) IN
        InWindow(c,
                 CASE window.phase = "off" ->
                          [window EXCEPT !.calls =
                              IF @ < MaxWindowCalls THEN @ + 1 ELSE MaxWindowCalls]
                   [] window.phase = "on" ->
                          [window EXCEPT !.phase = "after",
                                         !.res = <<r.res, r.loc>>,
                                         !.ref = <<f.res, f.loc, f.m.balance>>]
                   [] OTHER -> NoWindow("none"))

\* balance() and cal_write_set_gas() leave a stretch as it is
QueryInWindow ==
    \E c \in {Call("balance", NoInput), Call("cal_write_set_gas", NoInput)} :
        InWindow(c, IF window.phase \in {"off", "on"} THEN window ELSE NoWindow("none"))

WindowNext ==
    \/ SwitchOff
    \/ SwitchOn
    \/ ChargeInWindow
    \/ QueryInWindow

WindowSpec == WindowInit /\ [][WindowNext]_vars


(***************************************************************************)
(* Claims about the metering window, checked under WindowSpec.             *)
(***************************************************************************)
\* C22: set_metering changes only the charging flag, leaving the balance and
\* the parameters; a new meter starts with charging enabled; and after
\* set_metering(false), any sequence of charges, then set_metering(true), the
\* balance is the one before the disable and the next charge returns and
\* leaves what it does on a meter of that balance: nothing requested while
\* disabled is charged later.
C22_SetMeteringFrame ==
    /\ meter.gas_params = InitParams
    /\ window.phase = "new" => (meter.charge /\ meter.balance = ConstructedBalance)
    /\ window.phase = "off" => (~meter.charge /\ meter.balance = window.balance)
    /\ window.phase = "on" => (meter.charge /\ meter.balance = window.balance)
    /\ window.phase = "after" =>
           /\ window.res = <<window.ref[1], window.ref[2]>>
           /\ meter.balance = window.ref[3]
           /\ meter.charge

\* C22 witness: charging was switched off at a positive balance, several
\* charges were made, charging was switched on again, and the next charge
\* took a positive amount, no more than the balance, from the balance
\* recorded at the disable
C22_Witness ==
    /\ window.phase = "after" /\ window.calls = MaxWindowCalls
    /\ window.balance > 0
    /\ window.res[1] = "Ok"
    /\ meter.balance < window.balance


(***************************************************************************)
(* The quotes' specification: the owner of one meter calls it freely and   *)
(* records what balance() returns: the return of a balance() that is the   *)
(* first call after new(), and the returns of the last two balance().      *)
(***************************************************************************)
QuoteInit ==
    /\ \E name \in ParamNames, gas \in 0..MaxGas :
          /\ meter = new(ParamsNamed(name), gas)
          /\ init_gas = gas
          /\ init_params = name
    /\ was_zero = (meter.balance = 0)
    /\ last = [op |-> "new", inp |-> NoInput, cost |-> 0, called |-> FALSE,
               pre |-> Pre, res |-> "Ok", loc |-> "none", ret |-> 0]
    /\ window = NoWindow("idle")
    /\ quotes = [fresh |-> TRUE, first |-> <<>>, seen |-> <<>>]
    /\ CodecIdle
    /\ FleetIdle

\* balance(): the owner records the Gas it returned
Quote ==
    LET c == Call("balance", NoInput)
        ret == returned(meter, c, invoke(meter, c))[3]
    IN  /\ meter' = invoke(meter, c).m
        /\ quotes' = [fresh |-> FALSE,
                      first |-> IF quotes.fresh THEN <<ret>> ELSE quotes.first,
                      seen  |-> IF quotes.seen = <<>>
                                THEN <<ret>>
                                ELSE <<quotes.seen[Len(quotes.seen)], ret>>]
        /\ UNCHANGED <<init_gas, init_params, last, was_zero, codec_vars, fleet, window>>

\* any other call, between two balance()
CallBetweenQuotes ==
    \E c \in Calls \ {Call("balance", NoInput)} :
        /\ meter' = invoke(meter, c).m
        /\ quotes' = [quotes EXCEPT !.fresh = FALSE]
        /\ UNCHANGED <<init_gas, init_params, last, was_zero, codec_vars, fleet, window>>

QuoteNext ==
    \/ Quote
    \/ CallBetweenQuotes

QuoteSpec == QuoteInit /\ [][QuoteNext]_vars


(***************************************************************************)
(* Claims about the quotes, checked under QuoteSpec.                       *)
(***************************************************************************)
\* the scale factor the meter was constructed with, as the parameters give it
InitScale == InitParams.txn["gas_unit_scaling_factor"]

\* C23: when the scale factor is at least 1 and init_gas * scale fits u64, a
\* balance() made right after new(params, init_gas) returns exactly init_gas;
\* and over every sequence of calls no balance() returns more than init_gas,
\* nor more than the balance() before it.
C23_ConstructionRoundTrip ==
    /\ (quotes.first # <<>> /\ InitScale >= 1 /\ init_gas * InitScale <= U64_MAX) =>
           quotes.first[1] = init_gas
    /\ \A i \in DOMAIN quotes.seen : quotes.seen[i] <= init_gas
    /\ Len(quotes.seen) = 2 => quotes.seen[2] <= quotes.seen[1]

\* C23 witness: on a meter built with a scale factor above 1, the balance()
\* right after new() returned the positive init_gas, charges followed, and
\* the latest balance() returned less than the one before it
C23_Witness ==
    /\ InitScale > 1 /\ init_gas > 0
    /\ quotes.first = <<init_gas>>
    /\ Len(quotes.seen) = 2
    /\ quotes.seen[2] < quotes.seen[1]
    /\ quotes.seen[1] <= init_gas

====
